---- MODULE Spec2Model ----
(***************************************************************************)
(* Model of landlab/components/advection/advection_solver_tvd.py:          *)
(* the upwind-link resolver find_upwind_link_at_link and the component     *)
(* AdvectionSolverTVD (constructor, calc_rate_of_change_at_nodes, update,  *)
(* run_one_step), on the 3x4 raster grid of the resolver's docstring.      *)
(*                                                                         *)
(* Arrays are functions over 0-based index sets, as in the source.         *)
(***************************************************************************)
EXTENDS Integers, FiniteSets, Sequences

(***************************************************************************)
(* The grid of the docstring example: RasterModelGrid((3, 4)).             *)
(***************************************************************************)
NumRows == 3
NumCols == 4

number_of_nodes == NumRows * NumCols
number_of_links == NumRows * (NumCols - 1) + (NumRows - 1) * NumCols

Nodes == 0 .. (number_of_nodes - 1)
Links == 0 .. (number_of_links - 1)

\* Links are numbered row by row: the NumCols-1 horizontal links of a row,
\* then the NumCols vertical links up to the next row.
LinksPerRow == 2 * NumCols - 1

NodeRow(n) == n \div NumCols
NodeCol(n) == n % NumCols
NodeAt(r, c) == r * NumCols + c

IsHorizontal(l) == (l % LinksPerRow) < NumCols - 1
LinkRow(l) == l \div LinksPerRow
LinkCol(l) == IF IsHorizontal(l) THEN l % LinksPerRow
              ELSE (l % LinksPerRow) - (NumCols - 1)

node_at_link_tail(l) == NodeAt(LinkRow(l), LinkCol(l))
node_at_link_head(l) == IF IsHorizontal(l) THEN NodeAt(LinkRow(l), LinkCol(l) + 1)
                        ELSE NodeAt(LinkRow(l) + 1, LinkCol(l))

\* Core nodes are the interior nodes; every perimeter node is a boundary node.
core_nodes == {n \in Nodes : /\ NodeRow(n) > 0 /\ NodeRow(n) < NumRows - 1
                             /\ NodeCol(n) > 0 /\ NodeCol(n) < NumCols - 1}

\* A link is active when at least one of its two nodes is a core node.
active_links == {l \in Links : \/ node_at_link_tail(l) \in core_nodes
                               \/ node_at_link_head(l) \in core_nodes}

\* grid.active_links as the array of link ids in increasing order, and the
\* fancy index a[grid.active_links].
RECURSIVE SortedSeq(_)
SortedSeq(S) ==
    IF S = {} THEN <<>>
    ELSE LET m == CHOOSE x \in S : \A y \in S : x <= y
         IN <<m>> \o SortedSeq(S \ {m})

active_links_array == SortedSeq(active_links)
AtActiveLinks(a) == [k \in 1 .. Len(active_links_array) |-> a[active_links_array[k]]]

\* The sentinel "no upwind link".
NoLink == 0 - 1

\* The link parallel to l that ends at l's tail (upwind for positive flow),
\* and the one that starts at l's head (upwind for negative flow).
LinkBehind(l) ==
    LET c == {k \in Links : /\ IsHorizontal(k) = IsHorizontal(l)
                            /\ node_at_link_head(k) = node_at_link_tail(l)}
    IN IF c = {} THEN NoLink ELSE CHOOSE k \in c : TRUE

LinkAhead(l) ==
    LET c == {k \in Links : /\ IsHorizontal(k) = IsHorizontal(l)
                            /\ node_at_link_tail(k) = node_at_link_head(l)}
    IN IF c = {} THEN NoLink ELSE CHOOSE k \in c : TRUE

\* The two-candidate table: column 0 is the candidate for positive flow,
\* column 1 the candidate for negative flow; -1 where the upwind direction
\* has a boundary node, or where the link is inactive.
parallel_links_at_link ==
    [l \in Links |->
        [k \in 0 .. 1 |->
            IF l \notin active_links THEN NoLink
            ELSE IF k = 0
                 THEN (IF node_at_link_tail(l) \in core_nodes
                       THEN LinkBehind(l) ELSE NoLink)
                 ELSE (IF node_at_link_head(l) \in core_nodes
                       THEN LinkAhead(l) ELSE NoLink)]]

(***************************************************************************)
(* Python objects: the attributes of an object are a function from         *)
(* attribute names to values.  Reading a name outside its domain raises    *)
(* AttributeError.                                                         *)
(***************************************************************************)
NoAttrs == [a \in {} |-> 0]
HasAttr(obj, a) == a \in DOMAIN obj
SetAttr(obj, a, v) == [b \in (DOMAIN obj) \cup {a} |-> IF b = a THEN v ELSE obj[b]]

\* The one-time topology construction: builds the table and memoizes it on
\* the grid object.
setup_parallel_link_at_link(g) ==
    [pll |-> parallel_links_at_link,
     grid |-> SetAttr(g, "parallel_links_at_link", parallel_links_at_link)]

(***************************************************************************)
(* find_upwind_link_at_link(grid, u)                                       *)
(***************************************************************************)

\* A velocity argument: a uniform scalar or one value per link (np.ndarray).
VelValues == {0 - 1, 0, 1}
Scalar(v) == [kind |-> "scalar", val |-> v]
Array(a) == [kind |-> "ndarray", val |-> a]
np_zeros == [l \in Links |-> 0]

\* A resolver that rebuilds the table on every call.
lookup_pll_always_builds(g) ==
    LET s == setup_parallel_link_at_link(g)
    IN [pll |-> s.pll, grid |-> s.grid, built |-> TRUE]

\* Lines 69-72: the stored table if the grid has one, else a fresh build.
lookup_pll(g) ==
    IF HasAttr(g, "parallel_links_at_link")
    THEN [pll |-> g["parallel_links_at_link"], grid |-> g, built |-> FALSE]
    ELSE LET s == setup_parallel_link_at_link(g)
         IN [pll |-> s.pll, grid |-> s.grid, built |-> TRUE]

\* A selection that takes the negative-direction candidate everywhere as
\* soon as any link has negative velocity.
select_uwl_any_negative(pll, u) ==
    IF u.kind = "ndarray"
    THEN [l \in Links |-> IF \E k \in Links : u.val[k] < 0
                          THEN pll[l][1] ELSE pll[l][0]]
    ELSE IF u.val > 0
         THEN [l \in Links |-> pll[l][0]]
         ELSE [l \in Links |-> pll[l][1]]

\* A selection with the two scalar branches exchanged.
select_uwl_scalar_swapped(pll, u) ==
    IF u.kind = "ndarray"
    THEN [l \in Links |-> IF u.val[l] < 0 THEN pll[l][1] ELSE pll[l][0]]
    ELSE IF u.val > 0
         THEN [l \in Links |-> pll[l][1]]
         ELSE [l \in Links |-> pll[l][0]]

\* Lines 73-82: the selection between the two candidates.
select_uwl(pll, u) ==
    IF u.kind = "ndarray"
    THEN [l \in Links |-> IF u.val[l] < 0 THEN pll[l][1] ELSE pll[l][0]]
    ELSE IF u.val > 0
         THEN [l \in Links |-> pll[l][0]]
         ELSE [l \in Links |-> pll[l][1]]

find_upwind_link_at_link(g, u) ==
    LET r == lookup_pll(g)
    IN [uwl |-> select_uwl(r.pll, u), grid |-> r.grid, built |-> r.built]

(***************************************************************************)
(* Exact arithmetic for field values: a value is a fraction [n, d] in      *)
(* lowest terms with d > 0.                                                *)
(***************************************************************************)
Abs(x) == IF x < 0 THEN 0 - x ELSE x

RECURSIVE GCD(_, _)
GCD(a, b) == IF b = 0 THEN a ELSE GCD(b, a % b)

Rat(n, d) ==
    LET g == GCD(Abs(n), Abs(d))
        sg == IF d < 0 THEN 0 - 1 ELSE 1
    IN [n |-> (sg * n) \div g, d |-> (sg * d) \div g]

Int2Rat(k) == [n |-> k, d |-> 1]
RAdd(a, b) == Rat(a.n * b.d + b.n * a.d, a.d * b.d)
RSub(a, b) == Rat(a.n * b.d - b.n * a.d, a.d * b.d)
RMul(a, b) == Rat(a.n * b.n, a.d * b.d)
RDiv(a, b) == Rat(a.n * b.d, a.d * b.n)
RNeg(a) == [n |-> 0 - a.n, d |-> a.d]
RAbs(a) == [n |-> Abs(a.n), d |-> a.d]
RZero == Int2Rat(0)
ROne == Int2Rat(1)

(***************************************************************************)
(* The grid's operators and the limiter helpers the component calls.       *)
(***************************************************************************)

\* Low-order reconstruction: the value at the upwind node of each link.
map_node_to_link_linear_upwind(v, vel) ==
    [l \in Links |-> IF vel[l] > 0 THEN v[node_at_link_tail(l)]
                     ELSE v[node_at_link_head(l)]]

\* High-order reconstruction: 0.5 * ((1 + c) * v[tail] + (1 - c) * v[head]).
map_node_to_link_lax_wendroff(v, c) ==
    [l \in Links |->
        RMul(Rat(1, 2),
             RAdd(RMul(Int2Rat(1 + c[l]), v[node_at_link_tail(l)]),
                  RMul(Int2Rat(1 - c[l]), v[node_at_link_head(l)])))]

\* The "large finite value" of the ratio when only the local gradient is zero.
LargeRatio == 1000

\* Ratio of the gradient at the upwind link to the gradient at the link
\* itself; a link with no upwind link has no upstream gradient (zero).
upwind_to_local_grad_ratio(v, uwll) ==
    LET local_diff == [l \in Links |->
                          RSub(v[node_at_link_head(l)], v[node_at_link_tail(l)])]
        upstream(l) == IF uwll[l] = NoLink THEN RZero ELSE local_diff[uwll[l]]
    IN [l \in Links |->
           IF local_diff[l] # RZero THEN RDiv(upstream(l), local_diff[l])
           ELSE IF upstream(l) # RZero THEN Int2Rat(LargeRatio)
           ELSE RZero]

\* psi(r) = (r + |r|) / (1 + |r|)
flux_lim_vanleer(r) ==
    [l \in Links |-> RDiv(RAdd(r[l], RAbs(r[l])), RAdd(ROne, RAbs(r[l])))]

RECURSIVE RSum(_, _)
RSum(f, S) == IF S = {} THEN RZero
              ELSE LET x == CHOOSE y \in S : TRUE
                   IN RAdd(f[x], RSum(f, S \ {x}))

\* Net outflow per unit cell area at each core node (unit spacing); zero at
\* the perimeter nodes, which have no cell.
calc_flux_div_at_node(flux) ==
    [n \in Nodes |->
        IF n \notin core_nodes THEN RZero
        ELSE RSub(RSum(flux, {l \in Links : node_at_link_tail(l) = n}),
                  RSum(flux, {l \in Links : node_at_link_head(l) = n}))]

(***************************************************************************)
(* class AdvectionSolverTVD                                                *)
(*                                                                         *)
(* The fields of the grid are the record `fields`; an attribute of the     *)
(* component that holds an array holds the name of the field it refers to  *)
(* (the arrays are shared with the grid, not copied).                      *)
(***************************************************************************)

\* Lines 126-140: the attributes the constructor assigns.
__init__(field_to_advect) ==
    [a \in {"_scalar", "_vel", "_flux_at_link"} |->
        CASE a = "_scalar" -> field_to_advect
          [] a = "_vel" -> "advection__velocity"
          [] a = "_flux_at_link" -> "advection__flux"]

\* The outcome of a method call: the exception it raised ("" if it returned),
\* the fields as the call left them, the upwind-link map it handed to the
\* ratio helper (<<>> if it never got there) and its return value (<<>> if
\* it returned nothing).
Raised(name, f, uw) ==
    [raised |-> name, fields |-> f, uwll |-> uw, value |-> <<>>]
Returned(f, uw, val) ==
    [raised |-> "", fields |-> f, uwll |-> uw, value |-> val]

\* Lines 142-153.
calc_rate_of_change_at_nodes(slf, f) ==
    LET vel == f[slf["_vel"]]
        s_link_low == map_node_to_link_linear_upwind(f[slf["_scalar"]], vel)
        s_link_high == map_node_to_link_lax_wendroff(f[slf["_scalar"]], vel)
    IN IF ~HasAttr(slf, "elev") THEN Raised("elev", f, <<>>)
       ELSE IF ~HasAttr(slf, "vel") THEN Raised("vel", f, <<>>)
       ELSE IF ~HasAttr(slf, "uwll") THEN Raised("uwll", f, <<>>)
       ELSE
         LET uw == f[slf["uwll"]]
             r == upwind_to_local_grad_ratio(f[slf["elev"]], uw)
             psi == flux_lim_vanleer(r)
             s_at_link == [l \in Links |->
                              RAdd(RMul(psi[l], s_link_high[l]),
                                   RMul(RSub(ROne, psi[l]), s_link_low[l]))]
             f2 == [f EXCEPT ![slf["_flux_at_link"]] =
                       [l \in Links |->
                           IF l \in active_links
                           THEN RMul(Int2Rat(vel[l]), s_at_link[l])
                           ELSE @[l]]]
         IN IF ~HasAttr(slf, "flux_at_link") THEN Raised("flux_at_link", f2, <<uw>>)
            ELSE Returned(f2, <<uw>>,
                          <<[n \in Nodes |->
                               RNeg(calc_flux_div_at_node(f2[slf["flux_at_link"]])[n])]>>)

\* Lines 155-157.
update(slf, f, dt) ==
    LET c == calc_rate_of_change_at_nodes(slf, f)
    IN IF c.raised # "" THEN c
       ELSE LET roc == c.value[1]
            IN Returned([c.fields EXCEPT ![slf["_scalar"]] =
                            [n \in Nodes |->
                                IF n \in core_nodes
                                THEN RAdd(@[n], RMul(roc[n], Int2Rat(dt)))
                                ELSE @[n]]],
                        c.uwll, <<>>)

\* Lines 159-160.
run_one_step(slf, f, dt) == update(slf, f, dt)

(***************************************************************************)
(* State.                                                                  *)
(***************************************************************************)
VARIABLES
    grid,        \* attributes memoized on the grid object
    setup_runs,  \* how many times setup_parallel_link_at_link has run
    calls,       \* how many times find_upwind_link_at_link has been called
    u,           \* the caller's velocity argument
    ret,         \* <<uwl>>: the array returned for the current u; <<>> if none
    fields,      \* the grid's field arrays, by name
    self,        \* the attributes of the AdvectionSolverTVD instance
    last         \* the component method called last, and its outcome

upwind_vars == <<grid, setup_runs, calls, u, ret>>
component_vars == <<fields, self, last>>
vars == <<grid, setup_runs, calls, u, ret, fields, self, last>>

\* The number of resolver calls explored.
MaxCalls == 3

\* Time steps passed to update / run_one_step.
DtValues == {0, 1}

\* Scalar fields the component is constructed on: flat, a ramp along the
\* rows, a ramp along the columns, and a curved surface.
ScalarProfiles ==
    { [n \in Nodes |-> Int2Rat(1)],
      [n \in Nodes |-> Int2Rat(NodeCol(n))],
      [n \in Nodes |-> Int2Rat(NodeRow(n))],
      [n \in Nodes |-> Int2Rat(NodeCol(n) * NodeCol(n) + NodeRow(n))] }

NoCall == [op |-> "none", dt |-> 0, raised |-> "", uwll |-> <<>>, value |-> <<>>,
           flux_before |-> <<>>]
Outcome(op, dt, c, before) ==
    [op |-> op, dt |-> dt, raised |-> c.raised, uwll |-> c.uwll, value |-> c.value,
     flux_before |-> <<before>>]

InitUpwind ==
    /\ grid = NoAttrs
    /\ setup_runs = 0
    /\ calls = 0
    /\ u = Scalar(1)
    /\ ret = <<>>

\* The grid carries the velocity field (an input) and the scalar to advect;
\* initialize_output_fields creates advection__flux as zeros; the
\* constructor then binds the three arrays.
InitComponent ==
    /\ \E s \in ScalarProfiles :
          fields = [scalar |-> s,
                    advection__velocity |-> np_zeros,
                    advection__flux |-> [l \in Links |-> RZero]]
    /\ self = __init__("scalar")
    /\ last = NoCall

Init == InitUpwind /\ InitComponent

(***************************************************************************)
(* The resolver and its caller.                                            *)
(***************************************************************************)

\* The caller picks a uniform scalar velocity (1.0, -1.0, or 0).
UseScalar(v) ==
    /\ u' = Scalar(v)
    /\ ret' = <<>>
    /\ UNCHANGED <<grid, setup_runs, calls, component_vars>>

\* u = np.zeros(grid.number_of_links)
UseZeros ==
    /\ u' = Array(np_zeros)
    /\ ret' = <<>>
    /\ UNCHANGED <<grid, setup_runs, calls, component_vars>>

\* u[l] = v
SetItem(l, v) ==
    /\ u.kind = "ndarray"
    /\ u.val[l] # v
    /\ u' = Array([u.val EXCEPT ![l] = v])
    /\ ret' = <<>>
    /\ UNCHANGED <<grid, setup_runs, calls, component_vars>>

\* uwl = find_upwind_link_at_link(grid, u)
CallFindUpwind ==
    /\ calls < MaxCalls
    /\ LET r == find_upwind_link_at_link(grid, u)
       IN /\ ret' = <<r.uwl>>
          /\ grid' = r.grid
          /\ setup_runs' = IF r.built THEN setup_runs + 1 ELSE setup_runs
    /\ calls' = calls + 1
    /\ UNCHANGED <<u, component_vars>>

NextUpwind ==
    \/ \E v \in VelValues : UseScalar(v)
    \/ UseZeros
    \/ \E l \in active_links, v \in VelValues : SetItem(l, v)
    \/ CallFindUpwind

SpecUpwind == Init /\ [][NextUpwind]_vars

(***************************************************************************)
(* Properties of the resolver (checked under SpecUpwind).                  *)
(***************************************************************************)

\* The velocity the call saw at link i.
VelocityAt(i) == IF u.kind = "ndarray" THEN u.val[i] ELSE u.val

\* C1: for a per-link velocity array, the returned array has one entry per
\* link, and entry i is pll[i,1] where u[i] < 0 and pll[i,0] elsewhere: it
\* depends on the sign of u[i] alone.
C1_PerLinkSelection ==
    (u.kind = "ndarray" /\ ret # <<>>) =>
        /\ DOMAIN ret[1] = Links
        /\ \A i \in Links :
              ret[1][i] = IF u.val[i] < 0 THEN parallel_links_at_link[i][1]
                          ELSE parallel_links_at_link[i][0]

\* A call with velocities of both signs, whose two candidates differ.
C1_Witness ==
    /\ u.kind = "ndarray" /\ ret # <<>>
    /\ \E i, j \in active_links :
          /\ u.val[i] < 0 /\ u.val[j] > 0
          /\ ret[1][i] = parallel_links_at_link[i][1]
          /\ ret[1][i] # parallel_links_at_link[i][0]
          /\ ret[1][j] = parallel_links_at_link[j][0]
          /\ ret[1][j] # parallel_links_at_link[j][1]

\* C2: for a uniform positive scalar every link gets the positive-direction
\* candidate, for a uniform negative scalar the negative-direction one; on
\* the 3x4 grid (active links 4,5,7,8,9,11,12) that is [-1,-1,-1,7,8,4,5]
\* for u = 1.0 and [11,12,8,9,-1,-1,-1] for u = -1.0.
C2_UniformScalar ==
    (u.kind = "scalar" /\ u.val # 0 /\ ret # <<>>) =>
        /\ active_links_array = <<4, 5, 7, 8, 9, 11, 12>>
        /\ \A i \in Links :
              ret[1][i] = parallel_links_at_link[i][IF u.val > 0 THEN 0 ELSE 1]
        /\ u.val = 1 => AtActiveLinks(ret[1]) = <<-1, -1, -1, 7, 8, 4, 5>>
        /\ u.val = -1 => AtActiveLinks(ret[1]) = <<11, 12, 8, 9, -1, -1, -1>>

\* The call with u = -1.0 has returned the second table.
C2_Witness ==
    /\ u = Scalar(-1) /\ ret # <<>>
    /\ AtActiveLinks(ret[1]) = <<11, 12, 8, 9, -1, -1, -1>>

\* C3: a velocity of exactly zero selects the positive-direction candidate,
\* as a uniform scalar and as an entry of a per-link array alike, so the
\* scalar 0 and the all-zero array give the same map.
C3_ZeroIsNonNegative ==
    (ret # <<>>) =>
        /\ \A i \in Links :
              VelocityAt(i) = 0 => ret[1][i] = parallel_links_at_link[i][0]
        /\ u = Scalar(0) =>
              ret[1] = select_uwl(parallel_links_at_link, Array(np_zeros))

\* The velocity array of the third docstring example.
DocstringMixedU ==
    [l \in Links |-> IF l \in {4, 5, 7} THEN -1
                     ELSE IF l \in {8, 9, 11, 12} THEN 1 ELSE 0]

\* C4: the mixed-sign docstring example returns [11,12,8,9,8,4,5] at the
\* active links [4,5,7,8,9,11,12].
C4_DocstringExample ==
    (u = Array(DocstringMixedU) /\ ret # <<>>) =>
        AtActiveLinks(ret[1]) = <<11, 12, 8, 9, 8, 4, 5>>

\* C9: the candidate table is built lazily and at most once: the grid has
\* no table before the first call, the construction has run exactly once
\* after any number of calls, and the table stored on the grid is the one
\* built by the first call, whatever the later calls and velocities.
C9_BuiltOnce ==
    /\ calls = 0 => (setup_runs = 0 /\ ~HasAttr(grid, "parallel_links_at_link"))
    /\ calls > 0 => /\ setup_runs = 1
                    /\ HasAttr(grid, "parallel_links_at_link")
                    /\ grid["parallel_links_at_link"] = parallel_links_at_link

\* Several calls, the last with a per-link velocity, and one construction.
C9_Witness ==
    /\ calls >= 2 /\ setup_runs = 1
    /\ u.kind = "ndarray" /\ ret # <<>>

(***************************************************************************)
(* The component and its caller.                                           *)
(***************************************************************************)

\* grid.at_link["advection__velocity"][l] = v, between steps.
SetVelocity(l, v) ==
    /\ fields.advection__velocity[l] # v
    /\ fields' = [fields EXCEPT !.advection__velocity[l] = v]
    /\ last' = NoCall
    /\ UNCHANGED <<self, upwind_vars>>

CallCalcRateOfChange ==
    /\ LET c == calc_rate_of_change_at_nodes(self, fields)
       IN /\ fields' = c.fields
          /\ last' = Outcome("calc_rate_of_change_at_nodes", 0, c,
                             fields.advection__flux)
    /\ UNCHANGED <<self, upwind_vars>>

CallUpdate(dt) ==
    /\ LET c == update(self, fields, dt)
       IN /\ fields' = c.fields
          /\ last' = Outcome("update", dt, c, fields.advection__flux)
    /\ UNCHANGED <<self, upwind_vars>>

CallRunOneStep(dt) ==
    /\ LET c == run_one_step(self, fields, dt)
       IN /\ fields' = c.fields
          /\ last' = Outcome("run_one_step", dt, c, fields.advection__flux)
    /\ UNCHANGED <<self, upwind_vars>>

Next ==
    \/ \E l \in active_links, v \in VelValues : SetVelocity(l, v)
    \/ CallCalcRateOfChange
    \/ \E dt \in DtValues : CallUpdate(dt)
    \/ \E dt \in DtValues : CallRunOneStep(dt)

Spec == Init /\ [][Next]_vars

(***************************************************************************)
(* Properties of the component (checked under Spec).                       *)
(***************************************************************************)

IsStep == last.op \in {"update", "run_one_step"}

\* The upwind-link map of the velocity field as it stands.
CurrentUpwindMap ==
    select_uwl(parallel_links_at_link, Array(fields.advection__velocity))

\* The blended face value psi*high_order + (1 - psi)*low_order of the
\* scalar and velocity fields as they stand.
BlendedFaceValue ==
    LET vel == fields.advection__velocity
        lo == map_node_to_link_linear_upwind(fields.scalar, vel)
        hi == map_node_to_link_lax_wendroff(fields.scalar, vel)
        psi == flux_lim_vanleer(
                   upwind_to_local_grad_ratio(fields.scalar, CurrentUpwindMap))
    IN [l \in Links |->
           RAdd(RMul(psi[l], hi[l]), RMul(RSub(ROne, psi[l]), lo[l]))]

\* C5: the upwind-link map a step hands to the gradient-ratio helper is the
\* map find_upwind_link_at_link yields for the velocity field current at
\* that step.
C5_MapIsCurrent ==
    IsStep => last.uwll = <<CurrentUpwindMap>>

\* C6: after calc_rate_of_change_at_nodes the flux at every active link is
\* velocity times the blended face value, the flux at every other link is
\* what it was before the call, and the value returned is the negative of
\* the flux divergence of that flux array.
C6_FluxIsVelocityTimesFace ==
    (last.op = "calc_rate_of_change_at_nodes") =>
        /\ \A l \in active_links :
              fields.advection__flux[l] =
                  RMul(Int2Rat(fields.advection__velocity[l]), BlendedFaceValue[l])
        /\ \A l \in Links \ active_links :
              fields.advection__flux[l] = last.flux_before[1][l]
        /\ last.value =
              <<[n \in Nodes |->
                    RNeg(calc_flux_div_at_node(fields.advection__flux)[n])]>>

\* C10: a step on a component built by the constructor runs to completion:
\* it raises no AttributeError.
C10_StepCompletes ==
    IsStep => last.raised = ""

====
